---- MODULE Spec2Model ----
(***************************************************************************)
(* Verification model of the date picker's two engines:                    *)
(*   - the calendar/selection composable  useCalendar  (calendar.ts)       *)
(*   - the menu positioning composable    usePosition  (position.ts)       *)
(* Every handler is one action, ending when the handler returns: a write    *)
(* through the value sink is an emit, which the host stores at once.  The   *)
(* engine reads the value through props.internalModelValue, which takes the *)
(* host's value only at the next scheduler flush; the watcher that re-maps  *)
(* the time state from the value runs in that flush (action Flush).         *)
(***************************************************************************)
EXTENDS Integers, Sequences, FiniteSets, TLC

(* ------------------------------ bounds --------------------------------- *)
\* calendar days offered to the handlers are DayAt(0) .. DayAt(MaxDayIx)
MaxDayIx == 2
\* hours offered by the time picker are 0 and MaxHour
MaxHour == 1
\* minutes offered by the time picker are 0 and MaxMinute
MaxMinute == 1

(* ------------------------------ values --------------------------------- *)
\* A JavaScript Date, to the minute (setDateTime zeroes seconds and below).
MkDate(y, m, d, h, mi) ==
    [year |-> y, month |-> m, day |-> d, hours |-> h, minutes |-> mi]

\* null / undefined in a slot that otherwise holds a Date (falsy).
NoDate == MkDate(0, 0, 0, 0, 0)

\* The k-th calendar day of the input set, in chronological order: two days
\* (1st, 15th) of two months (January = 0, December = 11) of successive years.
DayAt(k) == MkDate(2023 + (k \div 4), 11 * ((k \div 2) % 2), 1 + 14 * (k % 2), 0, 0)

Days == {DayAt(k) : k \in 0..MaxDayIx}
Hours == {0, MaxHour}
Minutes == {0, MaxMinute}
Months == {d.month : d \in Days}
Years == {d.year : d \in Days}

\* Tagged JavaScript values: null, a Date, a number, an array.
Null == [kind |-> "null", v |-> <<>>]
DateVal(d) == [kind |-> "date", v |-> <<d>>]
Num(n) == [kind |-> "number", v |-> <<n>>]
Arr(s) == [kind |-> "array", v |-> s]

\* JavaScript truthiness of a model value: null is falsy, a Date or an array is truthy.
Truthy(value) == value.kind # "null"

(* ----------------------- type guards (type-guard.ts) ------------------- *)
isModelValueRange(value) == value.kind = "array"
isNumberArray(value) == value.kind = "array"
isTimeArr(value) == value.kind = "array"
isRange(value) == value.kind = "array" /\ Len(value.v) = 2

(* ------------------------ date utilities (date-utils.ts) --------------- *)
getDateMonth(d) == d.month
getDateYear(d) == d.year
getDateHours(d) == d.hours
getDateMinutes(d) == d.minutes

\* Dates are compared at day granularity (time of day reset on both sides).
DayKey(d) == (d.year * 12 + d.month) * 31 + d.day
isDateAfter(a, b) == a # NoDate /\ b # NoDate /\ DayKey(a) > DayKey(b)
isDateBefore(a, b) == a # NoDate /\ b # NoDate /\ DayKey(a) < DayKey(b)
isDateEqual(a, b) == a # NoDate /\ b # NoDate /\ DayKey(a) = DayKey(b)

\* A copy of the date with its time of day replaced.
setDateTime(d, h, mi) == [d EXCEPT !.hours = h, !.minutes = mi]

\* A copy of the date with its month and year replaced.
setDateMonthOrYear(d, m, y) == [d EXCEPT !.month = m, !.year = y]

(* ------------------------------ state ---------------------------------- *)
VARIABLES
    props,        \* the host's configuration, with internalModelValue (the value slot)
    pending,      \* the value the host stored on an emit and has not yet delivered
    month,        \* displayed month
    year,         \* displayed year
    hours,        \* Num(h) or Arr(<<h0, h1>>)
    minutes,      \* Num(m) or Arr(<<m0, m1>>)
    hoveredDate,  \* NoDate or the hovered day
    mounted,      \* onMounted has run
    emitted,      \* the events the latest handler emitted, in order
    lastOp,       \* the latest handler, its day argument, the value's shape before it
    answer        \* what the latest query (isDisabled) returned

calVars == <<props, pending, month, year, hours, minutes, hoveredDate, mounted, emitted, lastOp,
             answer>>

modelValue == props.internalModelValue

\* The host's value awaiting delivery, if any.
NoPending == [has |-> FALSE, value |-> [kind |-> "null", v |-> <<>>]]
Pending(value) == [has |-> TRUE, value |-> value]

\* The latest handler: its name, its day argument, and the shape of the value that
\* was stored when it started ("null", "date", or "array" with its length).
Shape(value) == [kind |-> value.kind, len |-> Len(value.v)]
Op(name, day) ==
    [op |-> name, day |-> day, before |-> Shape(props.internalModelValue), flushed |-> FALSE]

(* ----------------------- positioning engine: state --------------------- *)
VARIABLES
    posProps,      \* inline, teleportCenter, altPosition, position, offset, autoPosition
    geo,           \* what the DOM reports: the anchor's rectangle, scroll, viewport, panel size
    menuMounted,   \* the panel element exists (menuRef resolves)
    painted,       \* the menuPosition the panel was last laid out with
    menuPosition,  \* {top, left, transform, position?}
    openOnTop,
    posEmitted,    \* the events the latest positioning call emitted
    lastPosOp      \* the latest positioning call, and whether it could measure the panel

posVars == <<posProps, geo, menuMounted, painted, menuPosition, openOnTop, posEmitted, lastPosOp>>

vars == <<calVars, posVars>>

\* CSS lengths as the template strings build them: `${n}px`, `50%`, and the bare '0'.
Px(n) == [unit |-> "px", n |-> n]
Pct(n) == [unit |-> "%", n |-> n]
Bare(n) == [unit |-> "", n |-> n]

\* The style descriptor; position is "absent" until teleportCenter sets it.
MenuPosition(top, left, transform, position) ==
    [top |-> top, left |-> left, transform |-> transform, position |-> position]

\* lines 13-18: the refs as usePosition creates them
InitialMenuPosition == MenuPosition(Bare(0), Bare(0), "none", "absent")

PosProps(inline, centered, alt, position, offset, auto) ==
    [inline |-> inline, teleportCenter |-> centered, altPosition |-> alt,
     position |-> position, offset |-> offset, autoPosition |-> auto]

Rect(top, left, width, height) == [top |-> top, left |-> left, width |-> width, height |-> height]

Geometry(anchorMounted, anchor, sx, sy, ih, cw, pw, ph) ==
    [anchorMounted |-> anchorMounted, anchor |-> anchor, scrollX |-> sx, scrollY |-> sy,
     innerHeight |-> ih, clientWidth |-> cw, panelWidth |-> pw, panelHeight |-> ph]

\* The positioning engine at rest, for the specifications of the calendar engine.
PosIdle ==
    /\ posProps = PosProps(TRUE, FALSE, "false", "left", 0, FALSE)
    /\ geo = Geometry(FALSE, Rect(0, 0, 0, 0), 0, 0, 0, 0, 0, 0)
    /\ menuMounted = FALSE
    /\ painted = InitialMenuPosition
    /\ menuPosition = InitialMenuPosition
    /\ openOnTop = FALSE
    /\ posEmitted = <<>>
    /\ lastPosOp = [op |-> "setup", measured |-> FALSE]


\* The engine's own refs, as the pure helpers pass them around.
EngineState(mo, ye, ho, mi) == [month |-> mo, year |-> ye, hours |-> ho, minutes |-> mi]

\* What a handler did to the value sink: whether it wrote, the value, the events.
NoWrite == [wrote |-> FALSE, value |-> Null, emits |-> <<>>]
Wrote(value, autoApply) ==
    [wrote |-> TRUE, value |-> value,
     emits |-> IF autoApply THEN <<"update:internalModelValue", "autoApply">>
               ELSE <<"update:internalModelValue">>]

(* ------------------------------ isDisabled ----------------------------- *)
isDisabled_noMonthFilter(p, date) ==
    LET aboveMax == IF p.maxDate # NoDate THEN isDateAfter(date, p.maxDate) ELSE FALSE
        bellowMin == IF p.minDate # NoDate THEN isDateBefore(date, p.minDate) ELSE FALSE
        inDisableArr == \E i \in 1..Len(p.disabledDates) : isDateEqual(p.disabledDates[i], date)
        dateYear == getDateYear(date)
        outOfYearRange == dateYear < p.yearRange[1] \/ dateYear > p.yearRange[2]
    IN aboveMax \/ bellowMin \/ inDisableArr \/ outOfYearRange

isDisabled(p, date) ==
    LET aboveMax == IF p.maxDate # NoDate THEN isDateAfter(date, p.maxDate) ELSE FALSE
        bellowMin == IF p.minDate # NoDate THEN isDateBefore(date, p.minDate) ELSE FALSE
        inDisableArr == \E i \in 1..Len(p.disabledDates) : isDateEqual(p.disabledDates[i], date)
        disabledMonths == IF Len(p.filters.months) # 0
                          THEN {p.filters.months[i] : i \in 1..Len(p.filters.months)}
                          ELSE {}
        inDisabledMonths == getDateMonth(date) \in disabledMonths
        dateYear == getDateYear(date)
        outOfYearRange == dateYear < p.yearRange[1] \/ dateYear > p.yearRange[2]
    IN aboveMax \/ bellowMin \/ inDisableArr \/ inDisabledMonths \/ outOfYearRange

(* ------------------------ mapInternalModuleValues ---------------------- *)
mapInternalModuleValues(value, st) ==
    IF Truthy(value)
    THEN IF isModelValueRange(value)
         THEN IF Len(value.v) = 2
              THEN EngineState(getDateMonth(value.v[1]), getDateYear(value.v[1]),
                               Arr(<<getDateHours(value.v[1]), getDateHours(value.v[2])>>),
                               Arr(<<getDateMinutes(value.v[1]), getDateMinutes(value.v[2])>>))
              ELSE st
         ELSE EngineState(getDateMonth(value.v[1]), getDateYear(value.v[1]),
                          Num(getDateHours(value.v[1])), Num(getDateMinutes(value.v[1])))
    ELSE st

(* ------------------------------ selectDate ----------------------------- *)
\* lines 183-186: the snapshot of the stored range, emptied when it is complete
selectDate_snapshot_keepFull(value) ==
    IF Truthy(value) THEN value.v ELSE <<>>

selectDate_snapshot(value) ==
    LET rangeDate == IF Truthy(value) THEN value.v ELSE <<>>
    IN IF Len(rangeDate) = 2 THEN <<>> ELSE rangeDate

\* lines 187-195: the clicked day goes first, in front, or second
selectDate_insert_noUnshift(rangeDate, day) ==
    IF Len(rangeDate) = 0
    THEN <<day>>
    ELSE IF Len(rangeDate) >= 2 THEN [rangeDate EXCEPT ![2] = day]
         ELSE Append(rangeDate, day)

selectDate_insert(rangeDate, day) ==
    IF Len(rangeDate) = 0
    THEN <<day>>
    ELSE IF isDateBefore(day, rangeDate[1])
         THEN <<day>> \o rangeDate
         ELSE IF Len(rangeDate) >= 2 THEN [rangeDate EXCEPT ![2] = day]
              ELSE Append(rangeDate, day)

\* lines 196-201: each endpoint present gets the time of its slot
selectDate_applyTime(rangeDate, ho, mi) ==
    IF Len(rangeDate) < 2
    THEN [rangeDate EXCEPT ![1] = setDateTime(rangeDate[1], ho.v[1], mi.v[1])]
    ELSE [rangeDate EXCEPT ![1] = setDateTime(rangeDate[1], ho.v[1], mi.v[1]),
                           ![2] = setDateTime(rangeDate[2], ho.v[2], mi.v[2])]

\* line 203: autoApply accompanies a complete range only
selectDate_autoApply_always(p, rangeDate) == p.autoApply

selectDate_autoApply(p, rangeDate) == Len(rangeDate) >= 2 /\ p.autoApply

\* lines 177-206: a click on a day that is not disabled
selectDate_enabled(p, ho, mi, day) ==
    IF ~p.range /\ ~isNumberArray(ho) /\ ~isNumberArray(mi)
    THEN Wrote(DateVal(setDateTime(day, ho.v[1], mi.v[1])), p.autoApply)
    ELSE IF isNumberArray(ho) /\ isNumberArray(mi)
         THEN IF p.internalModelValue.kind = "date"
              THEN NoWrite   \* (modelValue as Date[]).slice() throws on a Date
              ELSE LET rangeDate ==
                          selectDate_applyTime(
                              selectDate_insert(selectDate_snapshot(p.internalModelValue), day),
                              ho, mi)
                   IN Wrote(Arr(rangeDate), selectDate_autoApply(p, rangeDate))
         ELSE NoWrite

selectDate_ignoringDisabled(p, ho, mi, day) == selectDate_enabled(p, ho, mi, day)

selectDate(p, ho, mi, day) ==
    IF isDisabled(p, day) THEN NoWrite ELSE selectDate_enabled(p, ho, mi, day)

(* ------------------------------ updateTime ----------------------------- *)
\* A variant whose single-date arm does not test the range flag.
handleTimeUpdate_noRangeTest(p, dateValue, ho, mi) ==
    IF isRange(dateValue) /\ isNumberArray(ho) /\ isNumberArray(mi)
    THEN Wrote(Arr(<<setDateTime(dateValue.v[1], ho.v[1], mi.v[1]),
                     setDateTime(dateValue.v[2], ho.v[2], mi.v[2])>>), FALSE)
    ELSE IF ~isRange(dateValue)
         THEN Wrote(DateVal(setDateTime(dateValue.v[1], ho.v[1], mi.v[1])), FALSE)
         ELSE NoWrite

handleTimeUpdate(p, dateValue, ho, mi) ==
    IF isRange(dateValue) /\ isNumberArray(ho) /\ isNumberArray(mi)
    THEN Wrote(Arr(<<setDateTime(dateValue.v[1], ho.v[1], mi.v[1]),
                     setDateTime(dateValue.v[2], ho.v[2], mi.v[2])>>), FALSE)
    ELSE IF ~p.range /\ ~isRange(dateValue)
         THEN Wrote(DateVal(setDateTime(dateValue.v[1], ho.v[1], mi.v[1])), FALSE)
         ELSE NoWrite

\* lines 265-269, after hours or minutes took the new value
updateTime(p, ho, mi, now) ==
    IF Truthy(p.internalModelValue)
    THEN handleTimeUpdate(p, p.internalModelValue, ho, mi)
    ELSE IF p.timePicker
         THEN handleTimeUpdate(p, IF p.range THEN Arr(<<now, now>>) ELSE DateVal(now), ho, mi)
         ELSE NoWrite

(* ---------------------------- updateMonthYear -------------------------- *)
\* A variant that rewrites the value whatever the picker mode is.
updateMonthYear_anyMode(p, mo, ye, now) ==
    IF Truthy(p.internalModelValue)
    THEN Wrote(DateVal(setDateMonthOrYear(p.internalModelValue.v[1], mo, ye)), FALSE)
    ELSE Wrote(DateVal(setDateMonthOrYear(now, mo, ye)), FALSE)

\* lines 233-239, after month or year took the new value
updateMonthYear(p, mo, ye, now) ==
    IF p.monthPicker
    THEN IF Truthy(p.internalModelValue)
         THEN Wrote(DateVal(setDateMonthOrYear(p.internalModelValue.v[1], mo, ye)), FALSE)
         ELSE Wrote(DateVal(setDateMonthOrYear(now, mo, ye)), FALSE)
    ELSE NoWrite

(* ------------------------------ onMounted ------------------------------ *)
\* A seed start time: Null, one {hours, minutes}, or a pair of them.
TimeVal(h, mi) == [kind |-> "time", v |-> <<[hours |-> h, minutes |-> mi]>>]

assignStartTime(startTime, st) ==
    IF isTimeArr(startTime)
    THEN [st EXCEPT !.hours = Arr(<<startTime.v[1].hours, startTime.v[2].hours>>),
                    !.minutes = Arr(<<startTime.v[1].minutes, startTime.v[2].minutes>>)]
    ELSE [st EXCEPT !.hours = Num(startTime.v[1].hours),
                    !.minutes = Num(startTime.v[1].minutes)]

onMounted(value, startDate, startTime, st) ==
    LET mapped == mapInternalModuleValues(value, st)
        dated == IF startDate # NoDate
                 THEN [mapped EXCEPT !.month = getDateMonth(startDate),
                                     !.year = getDateYear(startDate)]
                 ELSE mapped
    IN IF ~Truthy(value)
       THEN IF startTime.kind # "null" THEN assignStartTime(startTime, dated) ELSE dated
       ELSE mapped

(* ------------------------------ actions -------------------------------- *)
\* The current time, as new Date() and getDateHours() read it.
Nows == {setDateTime(DayAt(0), h, MaxMinute) : h \in Hours}

\* A handler reads the clock only on some paths; elsewhere the reading is immaterial.
Clock(needed) == IF needed THEN Nows ELSE {NoDate}

\* The handler's outcome r reaches the state: the refs take what the handler assigned
\* (st), and a written value is emitted and stored by the host, awaiting delivery; the
\* engine's props still hold the value it was last given.
Settle(r, st) ==
    /\ emitted' = r.emits
    /\ pending' = IF r.wrote THEN Pending(r.value) ELSE pending
    /\ props' = props
    /\ month' = st.month
    /\ year' = st.year
    /\ hours' = st.hours
    /\ minutes' = st.minutes

\* The scheduler flush after an emit: the host's value is delivered as
\* props.internalModelValue and the watcher on modelValue (line 82) maps it.
Flush ==
    /\ pending.has
    /\ props' = [props EXCEPT !.internalModelValue = pending.value]
    /\ pending' = NoPending
    /\ LET after == mapInternalModuleValues(pending.value,
                                            EngineState(month, year, hours, minutes))
       IN /\ month' = after.month
          /\ year' = after.year
          /\ hours' = after.hours
          /\ minutes' = after.minutes
    /\ lastOp' = [lastOp EXCEPT !.flushed = TRUE]
    /\ UNCHANGED <<emitted, hoveredDate, mounted, answer, posVars>>

Mount(startDate, startTime) ==
    /\ ~mounted
    /\ mounted' = TRUE
    /\ Settle(NoWrite, onMounted(modelValue, startDate, startTime,
                                 EngineState(month, year, hours, minutes)))
    /\ lastOp' = Op("onMounted", NoDate)
    /\ UNCHANGED <<hoveredDate, answer, posVars>>

SelectDate(day) ==
    /\ mounted
    /\ Settle(selectDate(props, hours, minutes, day), EngineState(month, year, hours, minutes))
    /\ lastOp' = Op("selectDate", day)
    /\ UNCHANGED <<hoveredDate, mounted, answer, posVars>>

UpdateTime(value, isHours) ==
    /\ mounted
    /\ \E now \in Clock(~Truthy(modelValue) /\ props.timePicker) :
         LET ho == IF isHours THEN value ELSE hours
             mi == IF isHours THEN minutes ELSE value
         IN Settle(updateTime(props, ho, mi, now), EngineState(month, year, ho, mi))
    /\ lastOp' = Op("updateTime", NoDate)
    /\ UNCHANGED <<hoveredDate, mounted, answer, posVars>>

UpdateMonthYear(value, isMonth) ==
    /\ mounted
    /\ \E now \in Clock(~Truthy(modelValue) /\ props.monthPicker) :
         LET mo == IF isMonth THEN value ELSE month
             ye == IF isMonth THEN year ELSE value
         IN Settle(updateMonthYear(props, mo, ye, now), EngineState(mo, ye, hours, minutes))
    /\ lastOp' = Op("updateMonthYear", NoDate)
    /\ UNCHANGED <<hoveredDate, mounted, answer, posVars>>

SetHoverDate(day) ==
    /\ mounted
    /\ hoveredDate' = day
    /\ emitted' = <<>>
    /\ lastOp' = Op("setHoverDate", day)
    /\ UNCHANGED <<props, pending, month, year, hours, minutes, mounted, answer, posVars>>

\* The host replaces its value on its own and the flush delivers it: the watcher maps
\* it, also when it equals the value delivered before (a Date is a new object).
HostSetValue(value) ==
    /\ mounted
    /\ props' = [props EXCEPT !.internalModelValue = value]
    /\ pending' = NoPending
    /\ LET after == mapInternalModuleValues(value, EngineState(month, year, hours, minutes))
       IN /\ month' = after.month
          /\ year' = after.year
          /\ hours' = after.hours
          /\ minutes' = after.minutes
    /\ emitted' = <<>>
    /\ lastOp' = Op("hostSetValue", NoDate)
    /\ UNCHANGED <<hoveredDate, mounted, answer, posVars>>

(* --------------------------- input sets -------------------------------- *)
\* The time picker hands updateTime a number in single mode, a pair in range mode.
TimeArgs(range, S) ==
    IF range THEN {Arr(<<a, b>>) : a \in S, b \in S} ELSE {Num(a) : a \in S}

\* Seed start times of the shape the range flag asks for, or none.
SeedTimes(range) ==
    {Null} \cup
    (IF range
     THEN {Arr(<<[hours |-> a, minutes |-> 0], [hours |-> b, minutes |-> MaxMinute]>>) :
              a \in Hours, b \in Hours}
     ELSE {TimeVal(a, MaxMinute) : a \in Hours})

SeedDates == {NoDate, DayAt(MaxDayIx)}

\* props: range, autoApply, monthPicker, timePicker, maxDate, minDate, disabledDates,
\* filters.months, yearRange, internalModelValue
Props(r, a, mp, tp, mx, mn, dd, fm, yr, value) ==
    [range |-> r, autoApply |-> a, monthPicker |-> mp, timePicker |-> tp,
     maxDate |-> mx, minDate |-> mn, disabledDates |-> dd, filters |-> [months |-> fm],
     yearRange |-> yr, internalModelValue |-> value]

AllYears == <<1900, 2100>>

\* What the configuration disables: nothing, or every day after DayAt(MaxDayIx - 1).
DisableProfiles == {<<NoDate, <<>>>>, <<DayAt(MaxDayIx - 1), <<>>>>}

CalConfigs ==
    {Props(r, a, mp, tp, dis[1], NoDate, dis[2], <<>>, AllYears, Null) :
        r \in BOOLEAN, a \in BOOLEAN, mp \in BOOLEAN, tp \in BOOLEAN,
        dis \in DisableProfiles}

InitEngine(now) ==
    /\ month = getDateMonth(now)
    /\ year = getDateYear(now)
    /\ hours = (IF props.range THEN Arr(<<getDateHours(now), getDateHours(now)>>)
                ELSE Num(getDateHours(now)))
    /\ minutes = (IF props.range THEN Arr(<<getDateMinutes(now), getDateMinutes(now)>>)
                  ELSE Num(getDateMinutes(now)))
    /\ hoveredDate = NoDate
    /\ pending = NoPending
    /\ mounted = FALSE
    /\ emitted = <<>>
    /\ lastOp = Op("setup", NoDate)
    /\ answer = FALSE
    /\ PosIdle

(* ------------- the calendar engine under a well-formed host ------------ *)
\* The month-only picker has no range form (updateMonthYear treats the value as a Date);
\* the time-only picker is exercised in its single form.
InitCal ==
    /\ props \in {p \in CalConfigs : ~(p.range /\ (p.monthPicker \/ p.timePicker))}
    /\ \E now \in Nows : InitEngine(now)

NextCal ==
    \/ \E sd \in SeedDates, stt \in SeedTimes(props.range) : Mount(sd, stt)
    \/ \E day \in Days : SelectDate(day)
    \/ \E value \in TimeArgs(props.range, Hours) : UpdateTime(value, TRUE)
    \/ \E value \in TimeArgs(props.range, Minutes) : UpdateTime(value, FALSE)
    \/ \E value \in Months : UpdateMonthYear(value, TRUE)
    \/ \E value \in Years : UpdateMonthYear(value, FALSE)
    \/ Flush

SpecCal == InitCal /\ [][NextCal]_vars


(* ------- the calendar engine with the hover preview, plain date picker -- *)
InitHover ==
    /\ props \in {p \in CalConfigs : /\ p.autoApply /\ ~p.monthPicker /\ ~p.timePicker
                                     /\ p.maxDate # NoDate}
    /\ \E now \in Nows : InitEngine(now)

NextHover ==
    \/ NextCal
    \/ \E day \in Days : SetHoverDate(day)

SpecHover == InitHover /\ [][NextHover]_vars

(* ------------------------ isDisabled as a function ---------------------- *)
\* A configured bound or a queried date carries a time of day, which must not matter.
DisabledConfigs ==
    {Props(FALSE, FALSE, FALSE, FALSE, mx, mn, dd, fm, yr, Null) :
        mx \in {NoDate} \cup {setDateTime(d, 0, MaxMinute) : d \in Days},
        mn \in {NoDate} \cup {setDateTime(d, MaxHour, 0) : d \in Days},
        dd \in {<<>>} \cup {<<setDateTime(d, MaxHour, 0)>> : d \in Days},
        fm \in {<<>>, <<0>>, <<11>>, <<0, 11>>},
        yr \in {AllYears} \cup {<<y + k, y + k>> : y \in Years, k \in {-1, 0, 1}}}

IsDisabled(date) ==
    /\ answer' = isDisabled(props, date)
    /\ lastOp' = Op("isDisabled", date)
    /\ UNCHANGED <<props, pending, month, year, hours, minutes, hoveredDate, mounted, emitted,
                   posVars>>

InitDisabled ==
    /\ props \in DisabledConfigs
    /\ InitEngine(DayAt(0))

NextDisabled == \E d \in Days, h \in Hours : IsDisabled(setDateTime(d, h, 0))

SpecDisabled == InitDisabled /\ [][NextDisabled]_vars

(* ------ the calendar engine under a host that picks shapes freely ------ *)
\* The host binds any value and seeds any start time.  In range mode both shapes are
\* offered; in single mode only the single shapes are (an array there is read through
\* `as Date` casts).
HostDates == {setDateTime(d, h, 0) : d \in {DayAt(0), DayAt(MaxDayIx)}, h \in Hours}

HostValues(range) ==
    {Null} \cup {DateVal(d) : d \in HostDates} \cup
    (IF range
     THEN {Arr(<<d>>) : d \in HostDates} \cup {Arr(<<a, b>>) : a \in HostDates, b \in HostDates}
     ELSE {})

HostSeedTimes(range) ==
    SeedTimes(FALSE) \cup (IF range THEN SeedTimes(TRUE) ELSE {})

InitHost ==
    /\ \E r \in BOOLEAN : \E value \in HostValues(r) :
          props = Props(r, FALSE, FALSE, FALSE, NoDate, NoDate, <<>>, <<>>, AllYears, value)
    /\ \E now \in Nows : InitEngine(now)

NextHost ==
    \/ \E sd \in SeedDates, stt \in HostSeedTimes(props.range) : Mount(sd, stt)
    \/ \E day \in Days : SelectDate(day)
    \/ \E value \in TimeArgs(props.range, Hours) : UpdateTime(value, TRUE)
    \/ \E value \in TimeArgs(props.range, Minutes) : UpdateTime(value, FALSE)
    \/ \E value \in Months : UpdateMonthYear(value, TRUE)
    \/ \E value \in Years : UpdateMonthYear(value, FALSE)
    \/ \E value \in HostValues(props.range) : HostSetValue(value)
    \/ Flush

SpecHost == InitHost /\ [][NextHost]_vars

(* ----------------- the range preview: rangeActive as a query ----------- *)
\* A variant whose hover preview only extends forward from the first endpoint.
rangeActive_forwardOnly(value, hovered, day) ==
    IF isModelValueRange(value) /\ Len(value.v) >= 2
    THEN isDateAfter(day, value.v[1]) /\ isDateBefore(day, value.v[2])
    ELSE IF isModelValueRange(value) /\ Len(value.v) >= 1 /\ hovered # NoDate
         THEN isDateAfter(day, value.v[1]) /\ isDateBefore(day, hovered)
         ELSE FALSE

\* lines 124-140
rangeActive(value, hovered, day) ==
    IF isModelValueRange(value) /\ Len(value.v) >= 2
    THEN isDateAfter(day, value.v[1]) /\ isDateBefore(day, value.v[2])
    ELSE IF isModelValueRange(value) /\ Len(value.v) >= 1 /\ hovered # NoDate
         THEN \/ isDateAfter(day, value.v[1]) /\ isDateBefore(day, hovered)
              \/ isDateBefore(day, value.v[1]) /\ isDateAfter(day, hovered)
         ELSE FALSE

RangeActive(day) ==
    /\ answer' = rangeActive(modelValue, hoveredDate, day)
    /\ lastOp' = Op("rangeActive", day)
    /\ UNCHANGED <<props, pending, month, year, hours, minutes, hoveredDate, mounted, emitted,
                   posVars>>

\* A plain date picker, single or range, with the calendar cells asking rangeActive.
InitRange ==
    /\ \E r \in BOOLEAN :
          props = Props(r, FALSE, FALSE, FALSE, NoDate, NoDate, <<>>, <<>>, AllYears, Null)
    /\ \E now \in Nows : InitEngine(now)

NextRange ==
    \/ Mount(NoDate, Null)
    \/ \E day \in Days : SelectDate(day)
    \/ \E day \in Days : SetHoverDate(day)
    \/ \E day \in Days : RangeActive(day)
    \/ Flush

SpecRange == InitRange /\ [][NextRange]_vars

(* ------- the time picker under a host whose value ignores the mode ------ *)
\* The host binds a single date or a complete pair in either mode.
ShapeValues ==
    {Null} \cup {DateVal(d) : d \in HostDates} \cup
    {Arr(<<a, b>>) : a \in HostDates, b \in HostDates}

InitShapes ==
    /\ \E r \in BOOLEAN : \E value \in ShapeValues :
          props = Props(r, FALSE, FALSE, FALSE, NoDate, NoDate, <<>>, <<>>, AllYears, value)
    /\ \E now \in Nows : InitEngine(now)

NextShapes ==
    \/ Mount(NoDate, Null)
    \/ \E value \in TimeArgs(props.range, Hours) : UpdateTime(value, TRUE)
    \/ \E value \in TimeArgs(props.range, Minutes) : UpdateTime(value, FALSE)
    \/ \E value \in ShapeValues : HostSetValue(value)
    \/ Flush

SpecShapes == InitShapes /\ [][NextShapes]_vars

(***************************************************************************)
(*                    Positioning engine (position.ts)                     *)
(***************************************************************************)
(* ------------------------------ bounds --------------------------------- *)
\* anchor tops are 0, 5, .., 5 * MaxTopIx (viewport coordinates)
MaxTopIx == 2
\* anchor lefts are 4, 12, .., 4 + 8 * MaxLeftIx
MaxLeftIx == 1
\* panel widths are 10, 30, .. and panel heights 2, 9, .. up to index MaxPanelIx
MaxPanelIx == 1
\* window.innerHeight
InnerHeight == 12
\* document.documentElement.clientWidth
ClientWidth == 18
\* the anchor's height, and half its width (left + width / 2 stays whole)
AnchorHeight == 2
AnchorHalfWidth == 2
\* window.scrollX, window.scrollY
ScrollX == 1
ScrollY == 2
\* the anchor's offset parent: its offsetLeft, scrollLeft and scrollTop
ParentOffsetLeft == 3
ParentScrollLeft == 1
ParentScrollTop == 1
\* props.offset
MenuOffset == 1

\* line 19
maxHeight == 390

AnchorTops == {5 * k : k \in 0..MaxTopIx}
AnchorLefts == {4 + 8 * k : k \in 0..MaxLeftIx}
PanelWidths == {10 + 20 * k : k \in 0..MaxPanelIx}
PanelHeights == {2 + 7 * k : k \in 0..MaxPanelIx}

(* --------------------------- geometry provider ------------------------- *)
\* lines 29-35
getOffset(g) == [left |-> g.anchor.left + g.scrollX, top |-> g.anchor.top + g.scrollY]

\* The anchor and its offset parents, innermost first.
OffsetParents(g) ==
    << [offsetLeft |-> g.anchor.left, scrollLeft |-> 0, scrollTop |-> 0],
       [offsetLeft |-> ParentOffsetLeft, scrollLeft |-> ParentScrollLeft,
        scrollTop |-> ParentScrollTop] >>

\* lines 44-48: x accumulates, y is overwritten at every element of the chain
RECURSIVE getOffsetAlt_walk(_, _, _, _, _)
getOffsetAlt_walk(chain, i, x, y, rectTop) ==
    IF i > Len(chain)
    THEN [top |-> y, left |-> x]
    ELSE getOffsetAlt_walk(chain, i + 1, x + chain[i].offsetLeft - chain[i].scrollLeft,
                           rectTop + chain[i].scrollTop, rectTop)

\* lines 40-50
getOffsetAlt(g) == getOffsetAlt_walk(OffsetParents(g), 1, 0, 0, g.anchor.top)

\* `props.altPosition ? getOffsetAlt(el) : getOffset(el)`: true and a function are truthy
anchorOffset(p, g) == IF p.altPosition # "false" THEN getOffsetAlt(g) ELSE getOffset(g)

\* The custom positioning function of the host (props.altPosition as a function): this
\* one pins the panel to the anchor's viewport corner, and to the origin without an anchor.
AltPositionFn(g) ==
    IF g.anchorMounted
    THEN MenuPosition(Px(g.anchor.top), Px(g.anchor.left), "none", "absent")
    ELSE MenuPosition(Px(0), Px(0), "none", "absent")

\* menuEl.getBoundingClientRect(): the panel as laid out with the style `pt`, in
\* viewport coordinates (absolute styles scroll with the page, fixed ones do not).
menuRect(g, pt) ==
    LET cssLeft == IF pt.left.unit = "%" THEN (g.clientWidth * pt.left.n) \div 100
                   ELSE pt.left.n
        shift == IF pt.transform = "translateX(-100%)" THEN 0 - g.panelWidth
                 ELSE IF pt.transform \in {"translateX(-50%)", "translate(-50%, -50%)"}
                      THEN 0 - (g.panelWidth \div 2)
                      ELSE 0
        left == cssLeft + shift - (IF pt.position = "fixed" THEN 0 ELSE g.scrollX)
    IN [left |-> left, right |-> left + g.panelWidth, height |-> g.panelHeight]

(* ------------------------------ placement ------------------------------ *)
\* The refs a positioning call works on, and the events it emits.
PosState(mp, top, emits) == [menuPosition |-> mp, openOnTop |-> top, emits |-> emits]

\* lines 52-55
setPositionRight(mp, left, width) ==
    [mp EXCEPT !.left = Px(left + width), !.transform = "translateX(-100%)"]

\* lines 57-60
setPositionLeft(mp, left) ==
    [mp EXCEPT !.left = Px(left), !.transform = "translateX(0)"]

\* lines 62-75
setPositioning(p, mp, left, width) ==
    LET a == IF p.position = "left" THEN setPositionLeft(mp, left) ELSE mp
        b == IF p.position = "right" THEN setPositionRight(a, left, width) ELSE a
    IN IF p.position = "center"
       THEN [b EXCEPT !.left = Px(left + (width \div 2)), !.transform = "translateX(-50%)"]
       ELSE b

\* A variant that places the panel without testing that the anchor resolved.
setInitialPosition_unguarded(p, g, mp) ==
    LET off == anchorOffset(p, g)
        freeBottom == g.innerHeight - g.anchor.top - g.anchor.height
        placed == [mp EXCEPT !.top = IF g.anchor.top > freeBottom
                                     THEN Px(off.top - maxHeight)
                                     ELSE Px(off.top)]
    IN setPositioning(p, placed, off.left, g.anchor.width)

\* lines 77-87
setInitialPosition(p, g, mp) ==
    IF g.anchorMounted
    THEN LET fullHeight == g.innerHeight
             off == anchorOffset(p, g)
             freeBottom == fullHeight - g.anchor.top - g.anchor.height
             placed == [mp EXCEPT !.top = IF g.anchor.top > freeBottom
                                          THEN Px(off.top - maxHeight)
                                          ELSE Px(off.top)]
         IN setPositioning(p, placed, off.left, g.anchor.width)
    ELSE mp

\* lines 89-94
teleportCenter(mp) ==
    [mp EXCEPT !.left = Pct(50), !.top = Pct(50),
               !.transform = "translate(-50%, -50%)", !.position = "fixed"]

RECURSIVE setMenuPosition(_, _, _, _, _, _)
RECURSIVE positionTopBottom(_, _, _, _, _, _, _, _, _, _)
RECURSIVE recalculatePosition(_, _, _, _, _)

\* A variant that consults the custom override before centered mode.
setMenuPosition_overrideFirst(p, g, mm, pt, ps, recalculate) ==
    IF ~p.inline
    THEN IF p.altPosition = "function"
         THEN [ps EXCEPT !.menuPosition = AltPositionFn(g)]
         ELSE IF p.teleportCenter
              THEN [ps EXCEPT !.menuPosition = teleportCenter(@)]
              ELSE IF g.anchorMounted
                   THEN LET off == anchorOffset(p, g)
                            topped == [ps.menuPosition EXCEPT
                                          !.top = Px(g.anchor.height + off.top + p.offset)]
                            based == [ps EXCEPT !.menuPosition =
                                          setPositioning(p, topped, off.left, g.anchor.width)]
                        IN IF recalculate /\ p.autoPosition
                           THEN recalculatePosition(p, g, mm, pt, based)
                           ELSE based
                   ELSE ps
    ELSE ps

\* lines 100-117; mm: the panel element exists, pt: the style it is laid out with
setMenuPosition(p, g, mm, pt, ps, recalculate) ==
    IF ~p.inline
    THEN IF p.teleportCenter
         THEN [ps EXCEPT !.menuPosition = teleportCenter(@)]
         ELSE IF p.altPosition = "function"
              THEN [ps EXCEPT !.menuPosition = AltPositionFn(g)]
              ELSE IF g.anchorMounted
                   THEN LET off == anchorOffset(p, g)
                            topped == [ps.menuPosition EXCEPT
                                          !.top = Px(g.anchor.height + off.top + p.offset)]
                            based == [ps EXCEPT !.menuPosition =
                                          setPositioning(p, topped, off.left, g.anchor.width)]
                        IN IF recalculate /\ p.autoPosition
                           THEN recalculatePosition(p, g, mm, pt, based)
                           ELSE based
                   ELSE ps
    ELSE ps

\* A variant that opens below whenever the panel fits on neither side.
positionTopBottom_opensAbove_neverWhenBothExceed(menuHeight, top, freeSpaceBottom) ==
    IF menuHeight > top /\ menuHeight > freeSpaceBottom
    THEN FALSE
    ELSE menuHeight > freeSpaceBottom

\* A variant that sends a tie between the two sides below.
positionTopBottom_opensAbove_tieBelow(menuHeight, top, freeSpaceBottom) ==
    IF menuHeight > top /\ menuHeight > freeSpaceBottom
    THEN top > freeSpaceBottom
    ELSE menuHeight > freeSpaceBottom

\* lines 127-143: the branch taken, TRUE for the placement above the anchor
positionTopBottom_opensAbove(menuHeight, top, freeSpaceBottom) ==
    IF menuHeight > top /\ menuHeight > freeSpaceBottom
    THEN ~(top < freeSpaceBottom)
    ELSE menuHeight > freeSpaceBottom

\* A variant without the correction of a right overflow.
recalculatePosition_horizontal_noRight(mp, rect, clientWidth, left, width) ==
    IF rect.left < 0 THEN setPositionLeft(mp, left) ELSE mp

\* lines 161-165
recalculatePosition_horizontal(mp, rect, clientWidth, left, width) ==
    IF rect.left < 0
    THEN setPositionLeft(mp, left)
    ELSE IF rect.right > clientWidth
         THEN setPositionRight(mp, left, width)
         ELSE mp

\* lines 119-144
positionTopBottom(p, g, mm, pt, ps, height, inputHeight, freeSpaceBottom, top, offset) ==
    LET menuHeight == height + inputHeight
        above == [ps EXCEPT !.menuPosition.top = Px(offset - height - p.offset),
                            !.openOnTop = TRUE]
        below == [setMenuPosition(p, g, mm, pt, ps, FALSE) EXCEPT !.openOnTop = FALSE]
    IN IF positionTopBottom_opensAbove(menuHeight, top, freeSpaceBottom) THEN above ELSE below

\* A variant that notifies only when the pass changed the placement.
recalculatePosition_notify_onChangeOnly(placed, ps) ==
    IF placed.menuPosition # ps.menuPosition \/ placed.openOnTop # ps.openOnTop
    THEN [placed EXCEPT !.emits = Append(@, "recalculate-position")]
    ELSE placed

\* line 170: the notification, after the guarded block (placed: its outcome, ps: the
\* refs on entry)
recalculatePosition_notify(placed, ps) ==
    [placed EXCEPT !.emits = Append(@, "recalculate-position")]

\* lines 149-171
recalculatePosition(p, g, mm, pt, ps) ==
    LET placed ==
          IF g.anchorMounted /\ p.autoPosition /\ ~p.inline
          THEN LET inputHeight == g.anchor.height
                   top == g.anchor.top
                   width == g.anchor.width
                   off == anchorOffset(p, g)
                   fullHeight == g.innerHeight
                   freeSpaceBottom == fullHeight - top - inputHeight
               IN IF mm
                  THEN LET rect == menuRect(g, pt)
                           vertical == positionTopBottom(p, g, mm, pt, ps, rect.height,
                                                         inputHeight, freeSpaceBottom, top,
                                                         off.top)
                       IN [vertical EXCEPT !.menuPosition =
                              recalculatePosition_horizontal(@, rect, g.clientWidth,
                                                             off.left, width)]
                  ELSE ps
          ELSE ps
    IN recalculatePosition_notify(placed, ps)

(* ------------------------------ actions -------------------------------- *)
\* The result of a positioning call reaches the refs.
Place(ps, op) ==
    /\ menuPosition' = ps.menuPosition
    /\ openOnTop' = ps.openOnTop
    /\ posEmitted' = ps.emits
    /\ lastPosOp' = [op |-> op, measured |-> menuMounted]

Now == PosState(menuPosition, openOnTop, <<>>)

SetInitialPosition ==
    /\ Place([Now EXCEPT !.menuPosition = setInitialPosition(posProps, geo, menuPosition)],
             "setInitialPosition")
    /\ UNCHANGED <<posProps, geo, menuMounted, painted, calVars>>

SetMenuPosition ==
    /\ Place(setMenuPosition(posProps, geo, menuMounted, painted, Now, TRUE), "setMenuPosition")
    /\ UNCHANGED <<posProps, geo, menuMounted, painted, calVars>>

RecalculatePosition ==
    /\ Place(recalculatePosition(posProps, geo, menuMounted, painted, Now),
             "recalculatePosition")
    /\ UNCHANGED <<posProps, geo, menuMounted, painted, calVars>>

\* lines 20-24: the host switches centered mode and the watcher repositions
SetCentered(centered) ==
    /\ centered # posProps.teleportCenter
    /\ posProps' = [posProps EXCEPT !.teleportCenter = centered]
    /\ Place(setMenuPosition(posProps', geo, menuMounted, painted, Now, TRUE), "watch(centered)")
    /\ UNCHANGED <<geo, menuMounted, painted, calVars>>

\* The panel component mounts: menuRef resolves and the panel is laid out.
MountMenu ==
    /\ ~menuMounted
    /\ menuMounted' = TRUE
    /\ painted' = menuPosition
    /\ UNCHANGED <<posProps, geo, menuPosition, openOnTop, posEmitted, lastPosOp, calVars>>

\* The renderer flushes: the panel is laid out with the current menuPosition.
Paint ==
    /\ menuMounted
    /\ painted # menuPosition
    /\ painted' = menuPosition
    /\ UNCHANGED <<posProps, geo, menuMounted, menuPosition, openOnTop, posEmitted,
                   lastPosOp, calVars>>

(* ------------------------- the positioning engine ---------------------- *)
Geometries ==
    {Geometry(am, Rect(t, l, 2 * AnchorHalfWidth, AnchorHeight), ScrollX, ScrollY,
              InnerHeight, ClientWidth, pw, ph) :
        am \in BOOLEAN, t \in AnchorTops, l \in AnchorLefts,
        pw \in PanelWidths, ph \in PanelHeights}

PosConfigs ==
    {PosProps(inline, centered, alt, position, MenuOffset, auto) :
        inline \in BOOLEAN, centered \in BOOLEAN, alt \in {"false", "true", "function"},
        position \in {"left", "right", "center"}, auto \in BOOLEAN}

\* The calendar engine at rest, for the specifications of the positioning engine.
CalIdle ==
    /\ props = Props(FALSE, FALSE, FALSE, FALSE, NoDate, NoDate, <<>>, <<>>, AllYears, Null)
    /\ pending = NoPending
    /\ month = 0
    /\ year = 0
    /\ hours = Num(0)
    /\ minutes = Num(0)
    /\ hoveredDate = NoDate
    /\ mounted = FALSE
    /\ emitted = <<>>
    /\ lastOp = [op |-> "setup", day |-> NoDate, before |-> Shape(Null), flushed |-> FALSE]
    /\ answer = FALSE

InitPos ==
    /\ posProps \in PosConfigs
    /\ geo \in Geometries
    /\ menuMounted = FALSE
    /\ painted = InitialMenuPosition
    /\ menuPosition = InitialMenuPosition
    /\ openOnTop = FALSE
    /\ posEmitted = <<>>
    /\ lastPosOp = [op |-> "setup", measured |-> FALSE]
    /\ CalIdle

NextPos ==
    \/ SetInitialPosition
    \/ SetMenuPosition
    \/ RecalculatePosition
    \/ \E centered \in BOOLEAN : SetCentered(centered)
    \/ MountMenu
    \/ Paint

SpecPos == InitPos /\ [][NextPos]_vars

(***************************************************************************)
(*                               Properties                                *)
(***************************************************************************)
\* Calendar-date comparison stated field by field.
SameDay(a, b) == a.year = b.year /\ a.month = b.month /\ a.day = b.day
DayBefore(a, b) ==
    \/ a.year < b.year
    \/ a.year = b.year /\ a.month < b.month
    \/ a.year = b.year /\ a.month = b.month /\ a.day < b.day
CountOf(seq, e) == Cardinality({i \in 1..Len(seq) : seq[i] = e})
ClickedOn(op, day) == op.op = "selectDate" /\ op.day = day

\* The value the host holds: the last value emitted to it, once delivered the value the
\* engine reads.
storedValue == IF pending.has THEN pending.value ELSE modelValue

\* A step in which the handler `name` ran (a delivery only marks lastOp as flushed).
HandlerStep(name) == lastOp'.op = name /\ ~lastOp'.flushed

\* C1: in range mode, starting from no value, a first click on an enabled day d1, its
\* value stored and delivered, followed by a click on an enabled day d2 stores the
\* two-endpoint range <<earlier day, later day>>; when d2 is before d1, d1 is kept and
\* moves to the second position.
C1_RangeOrderedAfterTwoClicks ==
    [][ ( /\ props.range
          /\ lastOp.op = "selectDate" /\ ~isDisabled(props, lastOp.day)
          /\ lastOp.before.kind = "null"
          /\ lastOp.flushed /\ ~pending.has
          /\ isModelValueRange(modelValue) /\ Len(modelValue.v) = 1
          /\ SameDay(modelValue.v[1], lastOp.day)
          /\ HandlerStep("selectDate") /\ ~isDisabled(props, lastOp'.day) )
        => LET d1 == lastOp.day
               d2 == lastOp'.day
               new == storedValue'
           IN /\ pending'.has
              /\ new.kind = "array" /\ Len(new.v) = 2
              /\ IF DayBefore(d2, d1)
                 THEN SameDay(new.v[1], d2) /\ SameDay(new.v[2], d1)
                 ELSE SameDay(new.v[1], d1) /\ SameDay(new.v[2], d2)
              /\ ~DayBefore(new.v[2], new.v[1]) ]_vars

\* C1 witness: the first click's value had been delivered, the second click came
\* chronologically before the first, and the first click's day sits in the second
\* position of the value now stored.
C1_Witness ==
    /\ props.range /\ lastOp.op = "selectDate" /\ ~lastOp.flushed
    /\ lastOp.before = [kind |-> "array", len |-> 1]
    /\ pending.has /\ isRange(storedValue)
    /\ SameDay(storedValue.v[1], lastOp.day)
    /\ SameDay(storedValue.v[2], modelValue.v[1])
    /\ DayBefore(storedValue.v[1], storedValue.v[2])

\* C2: in range mode, a click on an enabled day while the value the engine reads is a
\* complete range writes a range of exactly one endpoint: the clicked day at the first
\* time slot.
C2_ThirdClickRestarts ==
    [][ ( /\ props.range /\ isRange(modelValue)
          /\ HandlerStep("selectDate") /\ ~isDisabled(props, lastOp'.day) )
        => /\ pending' =
                Pending(Arr(<<MkDate(lastOp'.day.year, lastOp'.day.month, lastOp'.day.day,
                                     hours.v[1], minutes.v[1])>>))
           /\ CountOf(emitted', "update:internalModelValue") = 1 ]_vars

\* C2 witness: a click on a complete range whose slots carried different hours has
\* replaced it by the single clicked day at the first slot's time.
C2_Witness ==
    /\ props.range /\ lastOp.op = "selectDate" /\ ~lastOp.flushed
    /\ lastOp.before = [kind |-> "array", len |-> 2]
    /\ isRange(modelValue)
    /\ pending = Pending(Arr(<<setDateTime(lastOp.day, hours.v[1], minutes.v[1])>>))
    /\ emitted = <<"update:internalModelValue">>
    /\ hours.v[1] # hours.v[2]

\* C3 as stated: in range mode a click emits autoApply (exactly once) if and only if
\* auto-apply is configured and the click leaves the stored range with both endpoints.
C3_AutoApplyIffComplete ==
    [][ (props.range /\ HandlerStep("selectDate"))
        => /\ CountOf(emitted', "autoApply") <= 1
           /\ (CountOf(emitted', "autoApply") = 1)
                <=> (props.autoApply /\ isRange(storedValue')) ]_vars

\* C3 amended: in range mode a click emits autoApply (exactly once) if and only if
\* auto-apply is configured, the clicked day is not disabled and the click leaves the
\* stored range with both endpoints, i.e. the click completes the second endpoint.
C3_AutoApplyIffCompletes ==
    [][ (props.range /\ HandlerStep("selectDate"))
        => /\ CountOf(emitted', "autoApply") <= 1
           /\ (CountOf(emitted', "autoApply") = 1)
                <=> ( /\ props.autoApply
                      /\ ~isDisabled(props, lastOp'.day)
                      /\ isRange(storedValue') ) ]_vars

\* C3 witness: with auto-apply configured, a click has completed the range and
\* autoApply went out once, after the value.
C3_Witness ==
    /\ props.range /\ props.autoApply /\ lastOp.op = "selectDate" /\ ~lastOp.flushed
    /\ lastOp.before = [kind |-> "array", len |-> 1]
    /\ pending.has /\ isRange(storedValue)
    /\ emitted = <<"update:internalModelValue", "autoApply">>

\* C4: a click on a disabled day writes nothing, emits nothing and leaves month, year,
\* hours, minutes and hoveredDate as they were, whatever value is stored.
C4_DisabledClickNoOp ==
    [][ (HandlerStep("selectDate") /\ isDisabled(props, lastOp'.day))
        => /\ emitted' = <<>>
           /\ UNCHANGED <<props, pending, month, year, hours, minutes, hoveredDate>> ]_vars

\* C4 witness: a disabled day was clicked while a complete range was stored and a
\* day was hovered.
C4_Witness ==
    /\ lastOp.op = "selectDate" /\ ~lastOp.flushed /\ isDisabled(props, lastOp.day)
    /\ lastOp.before = [kind |-> "array", len |-> 2]
    /\ ~pending.has /\ isRange(modelValue) /\ hoveredDate # NoDate /\ emitted = <<>>

\* C5: isDisabled(date) is true exactly when the date is after the max date, before
\* the min date, on a day of the disabled list, in an excluded month, or outside the
\* inclusive year range; an absent bound or empty list contributes nothing.
C5_AfterMax == props.maxDate # NoDate /\ DayBefore(props.maxDate, lastOp.day)
C5_BeforeMin == props.minDate # NoDate /\ DayBefore(lastOp.day, props.minDate)
C5_InList == \E i \in 1..Len(props.disabledDates) : SameDay(props.disabledDates[i], lastOp.day)
C5_InMonths == \E i \in 1..Len(props.filters.months) : props.filters.months[i] = lastOp.day.month
C5_OutOfYears == lastOp.day.year < props.yearRange[1] \/ lastOp.day.year > props.yearRange[2]

C5_DisabledIffAnyCondition ==
    lastOp.op = "isDisabled"
    => (answer <=> (C5_AfterMax \/ C5_BeforeMin \/ C5_InList \/ C5_InMonths \/ C5_OutOfYears))

\* C5 witness: a date disabled by the month filter alone.
C5_Witness ==
    /\ lastOp.op = "isDisabled" /\ answer
    /\ C5_InMonths
    /\ ~C5_AfterMax /\ ~C5_BeforeMin /\ ~C5_InList /\ ~C5_OutOfYears

\* C6 as stated: updateTime on an existing value (a date, a complete range, or a range
\* with only its first endpoint) writes a value with the same endpoints, each keeping
\* its calendar date and taking the engine's current hours and minutes of its slot.
C6_TimeUpdateRewritesEveryShape ==
    [][ (HandlerStep("updateTime") /\ Truthy(modelValue))
        => LET old == modelValue
               new == storedValue'
           IN /\ CountOf(emitted', "update:internalModelValue") = 1
              /\ pending'.has
              /\ new.kind = old.kind /\ Len(new.v) = Len(old.v)
              /\ \A i \in 1..Len(old.v) :
                    /\ SameDay(new.v[i], old.v[i])
                    /\ new.v[i].hours = hours'.v[i]
                    /\ new.v[i].minutes = minutes'.v[i] ]_vars


\* C7: in every reachable state hours and minutes are both pairs when range mode is
\* on and both scalars when it is off.
C7_TimeShapeMatchesRange ==
    IF props.range
    THEN /\ isNumberArray(hours) /\ Len(hours.v) = 2
         /\ isNumberArray(minutes) /\ Len(minutes.v) = 2
    ELSE hours.kind = "number" /\ minutes.kind = "number"

\* ---- positioning engine ----
\* A positioning call that reached positionTopBottom and the horizontal check:
\* recalculatePosition itself, or setMenuPosition (directly or from the watcher)
\* on its anchored path, with anchor and panel mounted, auto positioning, not inline.
RecalculationRan ==
    /\ lastPosOp.measured
    /\ geo.anchorMounted
    /\ posProps.autoPosition
    /\ ~posProps.inline
    /\ \/ lastPosOp.op = "recalculatePosition"
       \/ /\ lastPosOp.op \in {"setMenuPosition", "watch(centered)"}
          /\ ~posProps.teleportCenter
          /\ posProps.altPosition # "function"

FreeSpaceBottom == geo.innerHeight - geo.anchor.top - geo.anchor.height

\* C8: whenever the panel is taller than the free space below the anchor and shorter
\* than the space above it, positionTopBottom places it above: openOnTop is true and
\* menuPosition.top is the anchor offset minus the panel height minus the configured
\* offset, also when panel height plus anchor height exceeds the space above.
C8_TallPanelOpensAbove ==
    (/\ RecalculationRan
     /\ geo.panelHeight > FreeSpaceBottom
     /\ geo.panelHeight < geo.anchor.top)
    => /\ openOnTop
       /\ menuPosition.top
            = Px(anchorOffset(posProps, geo).top - geo.panelHeight - posProps.offset)

\* A recalculation placed a panel above that, together with the anchor, is taller
\* than the space above.
C8_Witness ==
    /\ RecalculationRan
    /\ geo.panelHeight > FreeSpaceBottom
    /\ geo.panelHeight < geo.anchor.top
    /\ geo.panelHeight + geo.anchor.height > geo.anchor.top
    /\ openOnTop
    /\ menuPosition.top
         = Px(anchorOffset(posProps, geo).top - geo.panelHeight - posProps.offset)

\* The step is a positioning call in which recalculatePosition measures the panel.
RecalculationStep ==
    /\ menuMounted
    /\ geo.anchorMounted
    /\ posProps.autoPosition
    /\ ~posProps.inline
    /\ \/ RecalculatePosition
       \/ /\ SetMenuPosition
          /\ ~posProps.teleportCenter
          /\ posProps.altPosition # "function"

RightAligned(mp) ==
    /\ mp.left = Px(anchorOffset(posProps, geo).left + geo.anchor.width)
    /\ mp.transform = "translateX(-100%)"

\* C9 as stated: whenever recalculatePosition measures a panel whose right edge exceeds
\* the content width, the result is right-aligned to the anchor, whatever the measured
\* left edge is.
C9_RightOverflowRightAligns ==
    [][(RecalculationStep /\ menuRect(geo, painted).right > geo.clientWidth)
       => RightAligned(menuPosition')]_vars

\* C9: whenever recalculatePosition measures a panel whose right edge exceeds the
\* content width and whose left edge is not negative, the result is right-aligned to
\* the anchor (left = anchor left + anchor width, shift of -100%), whatever the
\* configured alignment and the vertical placement are.
C9_RightOverflowRightAlignsUnlessLeftOverflow ==
    [][(/\ RecalculationStep
        /\ menuRect(geo, painted).right > geo.clientWidth
        /\ menuRect(geo, painted).left >= 0)
       => RightAligned(menuPosition')]_vars

\* A left-aligned panel that overflowed on the right only has been right-aligned by
\* the recalculation (the layout measured is still the one on screen).
C9_Witness ==
    /\ RecalculationRan
    /\ posProps.position = "left"
    /\ painted # menuPosition
    /\ menuRect(geo, painted).right > geo.clientWidth
    /\ menuRect(geo, painted).left >= 0
    /\ RightAligned(menuPosition)

\* C10 as stated: a second setMenuPosition in succession, with geometry, viewport and
\* configuration unchanged and the panel mounted throughout, leaves menuPosition and
\* openOnTop as the first call left them.
C10_SetMenuPositionIdempotent ==
    [][(/\ SetMenuPosition
        /\ lastPosOp.op = "setMenuPosition"
        /\ lastPosOp.measured)
       => (menuPosition' = menuPosition /\ openOnTop' = openOnTop)]_vars

\* ---- calendar engine, continued ----
\* Full date-and-time comparison: a is later than b.
LaterThan(a, b) ==
    \/ DayBefore(b, a)
    \/ SameDay(a, b) /\ a.hours > b.hours
    \/ SameDay(a, b) /\ a.hours = b.hours /\ a.minutes > b.minutes

\* C11 as stated: in range mode, whenever the stored value has two endpoints, the first
\* is not later than the second as full date-and-time values, also when both fall on
\* the same calendar day.
C11_RangeOrderedByDateTime ==
    (props.range /\ isRange(storedValue)) => ~LaterThan(storedValue.v[1], storedValue.v[2])

\* ---- positioning engine, continued ----
\* The configured horizontal alignment relative to the anchor, stated per alignment.
ConfiguredAlignment(mp) ==
    LET left == anchorOffset(posProps, geo).left
        width == geo.anchor.width
    IN /\ posProps.position = "left" => mp.left = Px(left) /\ mp.transform = "translateX(0)"
       /\ posProps.position = "right"
            => mp.left = Px(left + width) /\ mp.transform = "translateX(-100%)"
       /\ posProps.position = "center"
            => mp.left = Px(left + (width \div 2)) /\ mp.transform = "translateX(-50%)"

\* C12 as stated: setInitialPosition with a mounted anchor puts top at the anchor's top
\* offset minus maxHeight when the anchor's top exceeds the free space below it, and
\* otherwise at the anchor's bottom edge (top offset plus anchor height); left and
\* transform follow the configured alignment.
C12_InitialPositionAboveOrAtBottom ==
    (lastPosOp.op = "setInitialPosition" /\ geo.anchorMounted)
    => /\ menuPosition.top =
            (IF geo.anchor.top > FreeSpaceBottom
             THEN Px(anchorOffset(posProps, geo).top - maxHeight)
             ELSE Px(anchorOffset(posProps, geo).top + geo.anchor.height))
       /\ ConfiguredAlignment(menuPosition)

\* The combined height positionTopBottom works with, and its two comparisons.
MenuHeight == geo.panelHeight + geo.anchor.height
ExceedsAbove == MenuHeight > geo.anchor.top
ExceedsBelow == MenuHeight > FreeSpaceBottom

\* The side the decision table names: above on a tie or with more room above when the
\* panel fits on neither side, and otherwise above exactly when it does not fit below.
GoesAbove ==
    \/ ExceedsAbove /\ ExceedsBelow /\ geo.anchor.top >= FreeSpaceBottom
    \/ ~ExceedsAbove /\ ExceedsBelow

AboveTop == Px(anchorOffset(posProps, geo).top - geo.panelHeight - posProps.offset)
BelowTop == Px(geo.anchor.height + anchorOffset(posProps, geo).top + posProps.offset)

\* C13 as stated: positionTopBottom places the panel below the anchor (top = anchor
\* height + anchor offset + configured offset, openOnTop false) exactly when it fits
\* below, or fits on neither side and the space above is strictly less than the space
\* below; otherwise above (openOnTop true), a tie going above.
C13_DecisionTable ==
    RecalculationRan
    => /\ openOnTop <=> GoesAbove
       /\ openOnTop => menuPosition.top = AboveTop
       /\ ~openOnTop => menuPosition.top = BelowTop

\* C13 amended: the side is chosen as stated; the above placement is anchor offset minus
\* panel height minus configured offset; the below placement is what setMenuPosition(false)
\* produces: anchor height + anchor offset + configured offset in the built-in mode, the
\* centred 50% in centered mode, the override's own top with a custom override function.
C13_DecisionTableBelowBySetMenuPosition ==
    RecalculationRan
    => /\ openOnTop <=> GoesAbove
       /\ openOnTop => menuPosition.top = AboveTop
       /\ ~openOnTop =>
            menuPosition.top = (IF posProps.teleportCenter THEN Pct(50)
                                ELSE IF posProps.altPosition = "function"
                                     THEN AltPositionFn(geo).top
                                     ELSE BelowTop)

\* The panel fits on neither side, the two sides have equal room, and it went above.
C13_Witness ==
    /\ RecalculationRan
    /\ ExceedsAbove /\ ExceedsBelow
    /\ geo.anchor.top = FreeSpaceBottom
    /\ openOnTop
    /\ menuPosition.top = AboveTop

\* setMenuPosition reaches recalculatePosition: not inline, not centered, no custom
\* override function, anchor mounted, auto positioning on.
ReachesRecalculation ==
    /\ ~posProps.inline
    /\ ~posProps.teleportCenter
    /\ posProps.altPosition # "function"
    /\ geo.anchorMounted
    /\ posProps.autoPosition

\* C14: every recalculatePosition call completes with exactly one recalculate-position
\* notification, whether or not its guard passes and whether or not the placement
\* changed; a top-level setMenuPosition call (also from the centered watcher) completes
\* with at most one notification, exactly one when it reaches recalculatePosition: the
\* setMenuPosition(false) made from positionTopBottom does not recalculate again.
C14_OneNotificationPerPass ==
    /\ lastPosOp.op = "recalculatePosition" => posEmitted = <<"recalculate-position">>
    /\ lastPosOp.op \in {"setMenuPosition", "watch(centered)"}
         => posEmitted = (IF ReachesRecalculation THEN <<"recalculate-position">> ELSE <<>>)
    /\ lastPosOp.op \in {"setup", "setInitialPosition"} => posEmitted = <<>>

\* A top-level setMenuPosition measured the panel, chose the below placement (which
\* re-runs setMenuPosition(false)), left the placement as it was, and notified once.
C14_Witness ==
    /\ lastPosOp.op = "setMenuPosition"
    /\ RecalculationRan
    /\ ~GoesAbove
    /\ ~openOnTop
    /\ menuPosition = painted
    /\ posEmitted = <<"recalculate-position">>

\* C15: with centered mode off and no custom override function, without a mounted anchor
\* setInitialPosition, setMenuPosition and recalculatePosition leave menuPosition and
\* openOnTop as they were; with the anchor mounted and the panel not, recalculatePosition
\* leaves them as they were.
C15_MissingGeometryChangesNothing ==
    [][ ( /\ ~posProps.teleportCenter
          /\ posProps.altPosition # "function"
          /\ \/ /\ ~geo.anchorMounted
                /\ SetInitialPosition \/ SetMenuPosition \/ RecalculatePosition
             \/ /\ geo.anchorMounted /\ ~menuMounted
                /\ RecalculatePosition )
        => UNCHANGED <<menuPosition, openOnTop>> ]_vars

\* Without an anchor, setInitialPosition ran while menuPosition still held the centred
\* descriptor of an earlier centered mode, and kept it.
C15_Witness ==
    /\ lastPosOp.op = "setInitialPosition"
    /\ ~geo.anchorMounted
    /\ ~posProps.teleportCenter
    /\ posProps.altPosition # "function"
    /\ menuPosition = teleportCenter(InitialMenuPosition)

CentredDescriptor == MenuPosition(Pct(50), Pct(50), "translate(-50%, -50%)", "fixed")

\* C16: setMenuPosition picks one placement mode by fixed precedence.  Inline: nothing
\* changes and nothing is emitted.  Otherwise centered: top 50%, left 50%, transform
\* translate(-50%, -50%), position fixed, whatever the anchor and the override are.
\* Otherwise with a custom override function: menuPosition is exactly the descriptor the
\* function returns, with no recalculation and no notification even with auto
\* positioning on.  Only otherwise the built-in anchor-relative placement is used (top
\* below or above the anchor, notification exactly with auto positioning).
C16_PlacementModePrecedence ==
    [][ SetMenuPosition
        => IF posProps.inline
           THEN UNCHANGED <<menuPosition, openOnTop>> /\ posEmitted' = <<>>
           ELSE IF posProps.teleportCenter
                THEN /\ menuPosition' = CentredDescriptor
                     /\ UNCHANGED openOnTop
                     /\ posEmitted' = <<>>
                ELSE IF posProps.altPosition = "function"
                     THEN /\ menuPosition' = AltPositionFn(geo)
                          /\ UNCHANGED openOnTop
                          /\ posEmitted' = <<>>
                     ELSE geo.anchorMounted
                          => /\ menuPosition'.top \in {BelowTop, AboveTop}
                             /\ menuPosition'.left.unit = "px"
                             /\ menuPosition'.position = menuPosition.position
                             /\ (posEmitted' = <<"recalculate-position">>)
                                   <=> posProps.autoPosition ]_vars

\* Centered mode won over a configured override function, with the anchor mounted and
\* auto positioning on.
C16_Witness ==
    /\ lastPosOp.op = "setMenuPosition"
    /\ ~posProps.inline
    /\ posProps.teleportCenter
    /\ posProps.altPosition = "function"
    /\ posProps.autoPosition
    /\ geo.anchorMounted
    /\ menuPosition = CentredDescriptor
    /\ posEmitted = <<>>

\* ---- calendar engine: the range preview ----
StrictlyBetween(day, a, b) == DayBefore(a, day) /\ DayBefore(day, b)

\* C17: rangeActive(day) is true exactly when both endpoints are set and day is strictly
\* between them (whatever is hovered), or only the first endpoint is set, a day has been
\* hovered and day is strictly between the first endpoint and the hovered day in either
\* direction; with no value, a single date, or a first endpoint without hover it is
\* false, and neither an endpoint nor the hovered day is ever in range.
C17_RangeActiveExactly ==
    (lastOp.op = "rangeActive" /\ ~lastOp.flushed)
    => LET v == modelValue
           day == lastOp.day
           complete == v.kind = "array" /\ Len(v.v) = 2
           started == v.kind = "array" /\ Len(v.v) = 1
       IN /\ answer <=>
               \/ complete /\ StrictlyBetween(day, v.v[1], v.v[2])
               \/ /\ started /\ hoveredDate # NoDate
                  /\ \/ StrictlyBetween(day, v.v[1], hoveredDate)
                     \/ StrictlyBetween(day, hoveredDate, v.v[1])
          /\ answer => /\ \A i \in 1..Len(v.v) : ~SameDay(day, v.v[i])
                       /\ v.kind # "date"
                       /\ started => ~SameDay(day, hoveredDate)

\* With only the first endpoint set and an earlier day hovered, a day between the
\* hovered day and the endpoint is in range.
C17_Witness ==
    /\ lastOp.op = "rangeActive" /\ ~lastOp.flushed /\ answer
    /\ modelValue.kind = "array" /\ Len(modelValue.v) = 1
    /\ hoveredDate # NoDate
    /\ StrictlyBetween(lastOp.day, hoveredDate, modelValue.v[1])

\* ---- calendar engine: the time merge on a mismatched value ----
\* The stored value's shape does not match the range flag: a single date in range mode,
\* a pair in single mode.
ShapeMismatch ==
    \/ props.range /\ modelValue.kind = "date"
    \/ ~props.range /\ isRange(modelValue)

\* C18 as stated: on a value whose shape does not match the range flag, updateTime
\* writes no value, emits no signal and changes no state.
C18_MismatchChangesNothing ==
    [][ (HandlerStep("updateTime") /\ ShapeMismatch)
        => /\ emitted' = <<>>
           /\ UNCHANGED <<props, pending, month, year, hours, minutes, hoveredDate>> ]_vars

\* C18 amended: on such a value updateTime writes no value and emits no signal; the
\* stored value, month, year and hover date stay as they were, and of hours and minutes
\* only the one the call was given changes.
C18_MismatchWritesNothing ==
    [][ (HandlerStep("updateTime") /\ ShapeMismatch)
        => /\ emitted' = <<>>
           /\ UNCHANGED <<props, pending, month, year, hoveredDate>>
           /\ hours' = hours \/ minutes' = minutes ]_vars

\* In range mode over a single date, updateTime stored a pair of hours next to the
\* scalar minutes the watcher had mapped from the date, and wrote nothing.
C18_Witness ==
    /\ lastOp.op = "updateTime" /\ ~lastOp.flushed
    /\ props.range /\ modelValue.kind = "date"
    /\ lastOp.before.kind = "date"
    /\ hours.kind = "array" /\ minutes.kind = "number"
    /\ emitted = <<>>

\* ---- positioning engine: what the outputs depend on ----
\* What setMenuPosition yields on an engine without history (the refs as created),
\* under the current configuration, anchor geometry and panel layout.
WithoutHistory ==
    setMenuPosition(posProps, geo, menuMounted, painted,
                    PosState(InitialMenuPosition, FALSE, <<>>), TRUE).menuPosition

\* C19 as stated: after setMenuPosition in non-inline, non-centered, built-in mode with
\* the anchor mounted, every field of menuPosition is determined by the current geometry
\* and configuration alone: the run ends with the menuPosition that a run without the
\* earlier history (an earlier centered mode, an earlier alignment) ends with.
C19_MenuPositionIndependentOfHistory ==
    [][ ( /\ SetMenuPosition
          /\ ~posProps.inline
          /\ ~posProps.teleportCenter
          /\ posProps.altPosition # "function"
          /\ geo.anchorMounted )
        => menuPosition' = WithoutHistory ]_vars

\* C20 as stated: in every reachable state openOnTop is true only if menuPosition.top
\* is the above-anchor placement (anchor offset minus panel height minus configured
\* offset); a pass that leaves the panel below the anchor or centred leaves it false.
C20_OpenOnTopOnlyAbove ==
    openOnTop => menuPosition.top = AboveTop

\* ---- calendar engine: where the stored calendar dates come from ----
\* C21: with the month-only and time-only modes off, every step keeps the stored
\* endpoints on clicked days.  Each endpoint of the value stored after the step, and of
\* the value the engine reads after it, has the calendar date of an endpoint stored or
\* read before it, or of the day this step passed to selectDate, which was not
\* disabled; and a handler other than selectDate (setHoverDate, updateTime,
\* updateMonthYear, mounting), run when every emitted value has been stored and
\* delivered, leaves the number of endpoints and the calendar date of each as they
\* were.  From no value, every endpoint is therefore on a day that was clicked while
\* enabled.
C21_EndpointsAreClickedDays ==
    [][ (~props.monthPicker /\ ~props.timePicker)
        => LET read == modelValue
               old == storedValue
               new == storedValue'
               Known(d) == \/ \E j \in 1..Len(old.v) : SameDay(d, old.v[j])
                           \/ \E j \in 1..Len(read.v) : SameDay(d, read.v[j])
           IN /\ \A i \in 1..Len(new.v) :
                    \/ Known(new.v[i])
                    \/ /\ HandlerStep("selectDate")
                       /\ SameDay(new.v[i], lastOp'.day)
                       /\ ~isDisabled(props, lastOp'.day)
              /\ \A i \in 1..Len(modelValue'.v) : Known(modelValue'.v[i])
              /\ (~pending.has /\ lastOp'.op # "selectDate")
                    => /\ new.kind = old.kind
                       /\ Len(new.v) = Len(old.v)
                       /\ \A i \in 1..Len(old.v) : SameDay(new.v[i], old.v[i]) ]_vars

\* updateTime rewrote a delivered complete range over two different days with
\* different hours for its two endpoints.
C21_Witness ==
    /\ ~props.monthPicker /\ ~props.timePicker
    /\ lastOp.op = "updateTime" /\ ~lastOp.flushed
    /\ isRange(modelValue) /\ pending.has /\ isRange(storedValue)
    /\ emitted = <<"update:internalModelValue">>
    /\ DayBefore(storedValue.v[1], storedValue.v[2])
    /\ storedValue.v[1].hours # storedValue.v[2].hours

====
